---- MODULE Spec2Model ----
(***************************************************************************)
(* Order lifecycle and payment reconciliation of the digital product      *)
(* store server: order creation, payment-intent issuance, Stripe webhook  *)
(* settlement and the admin status override, over a shared products /     *)
(* orders datastore.  Every `await` of a handler is a separate step, so   *)
(* handlers running in different slots interleave at exactly the points   *)
(* where the Node.js event loop can switch between requests.              *)
(***************************************************************************)
EXTENDS Integers, Sequences, FiniteSets, TLC

\* ---------------------------------------------------------------- bounds
NumProducts == 2   \* rows of the products table
MaxStock == 2      \* largest initial stock of a product
MaxQty == 2        \* largest quantity of one order item in a request
MaxItems == 2      \* longest item list of a createOrder request
MaxOrders == 1     \* orders created in a run with overlapping handlers
MaxSeqOrders == 1  \* orders created in a run with one handler at a time
MaxReqs == 3       \* requests accepted in a run with overlapping handlers
MaxSeqReqs == 4    \* requests accepted in a run with one handler at a time
NumProcs == 2      \* handlers that may be in flight at once
MaxFaults == 1     \* datastore write failures injected in one run
MaxTwoOrders == 2  \* orders created in a run of SpecTwoOrders
MaxTwoReqs == 3    \* requests accepted in a run of SpecTwoOrders
MaxShopReqs == 3   \* requests accepted in a run of SpecShop
MaxCreated == 1    \* products created in one run
MaxNameLen == 4    \* longest category name tried exhaustively
MaxCategoryReqs == 2  \* requests accepted in a run of SpecCategories

\* ------------------------------------------------------------ identifiers
Products == 1..NumProducts
UnknownProduct == NumProducts + 1
ProductIds == Products \cup {UnknownProduct}
Procs == 1..NumProcs
NoOrderId == 0
UnknownOrder == MaxOrders + MaxSeqOrders + 1
Statuses == {"PENDING", "PAID", "FAILED", "CANCELLED"}
Emails == {"buyer@example.com"}
BuyerEmails == {"buyer@example.com", "other@example.com"}
ClientTotals == {0}
Signatures == {"none", "bad", "good"}
\* x-api-key / Authorization header of an admin request: absent, a value
\* that is not the configured key, the configured key.
ApiKeys == {"none", "wrong", "admin"}
EventTypes == {"payment_intent.succeeded", "payment_intent.payment_failed", "charge.refunded"}
\* Bodies that pass validate(createOrderSchema): at least one item, each a
\* product id and a positive quantity.
ItemLists == UNION {[1..n -> [productId : ProductIds, quantity : 1..MaxQty]] : n \in 1..MaxItems}

\* The catalogue's price list: distinct prices, none of them 1, so that a
\* total shows which price and which quantity went into it.
UnitPrice(p) == p + 1

\* stock, price      the products table: stock and price of each product
\* orders            the orders table with its order items, in order of creation
\* procs             the handlers in flight: for each slot the request, the place
\*                   reached (the next await) and the handler's local variables
\* out               the response the step just taken sent, with its request
\* emails            confirmation emails delivered, per order
\* lowered           per order and item, how much the settlement of that order
\*                   has lowered the product's stock so far
\* nreq              requests accepted so far
\* faults            product.update calls the datastore has rejected so far
\* webhookSecretSet  whether STRIPE_WEBHOOK_SECRET is configured
\* adminKeySet       whether ADMIN_API_KEY is configured
\* categories        the categories table: name and slug of each category
\* created           the products created after seeding: price, stock and
\*                   category of each; no order of a run names them
\* pre               the datastore as the request admitted last found it
\*                   (AdmitSeq); with overlapping handlers, the initial datastore
\* nextIntent        the identifier the processor gives the next payment intent
VARIABLES stock, price, orders, procs, out, emails, lowered, nreq, faults,
          webhookSecretSet, adminKeySet, categories, created, pre, nextIntent

vars == <<stock, price, orders, procs, out, emails, lowered, nreq, faults,
          webhookSecretSet, adminKeySet, categories, created, pre, nextIntent>>

Idle == [kind |-> "idle", pc |-> "idle"]
\* `out` is what the step just taken answered: the request it finished and
\* the response it sent, or NoOut when the step sent no response.
NoOut == [kind |-> "none"]
NoSnap == [found |-> FALSE]

\* ---------------------------------------------------------------- helpers
RECURSIVE SumSeq(_)
SumSeq(s) == IF s = <<>> THEN 0 ELSE Head(s) + SumSeq(Tail(s))

OrderExists(id) == id \in 1..Len(orders)

Db == [stock |-> stock, orders |-> orders, emails |-> emails, nextIntent |-> nextIntent,
       categories |-> categories, created |-> created, lowered |-> lowered]

Busy == {w \in Procs : procs[w].kind # "idle"}

\* A request is taken by the lowest-numbered free slot.
FreeSlot(w) == /\ procs[w].kind = "idle"
               /\ \A v \in Procs : v < w => procs[v].kind # "idle"

Finish(w, rec) == /\ procs' = [procs EXCEPT ![w] = Idle]
                  /\ out' = rec

sendSuccess(data, message, statusCode) ==
  [success |-> TRUE, code |-> statusCode, message |-> message, data |-> data]

sendError(message, statusCode) ==
  [success |-> FALSE, code |-> statusCode, message |-> message]

\* ------------------------------------------------------------ createOrder
productIdsOf(items) == [i \in 1..Len(items) |-> items[i].productId]

\* prisma.product.findMany({ where: { id: { in: productIds } } }): the rows
\* whose id occurs in the list, each row once.
findMany(productIds) == {p \in Products : \E i \in 1..Len(productIds) : productIds[i] = p}

\* Mutant of LengthMismatch: the batch lookup's result is never compared.
LengthNeverCompared(products, productIds) == FALSE

\* products.length !== productIds.length
LengthMismatch(products, productIds) == Cardinality(products) # Len(productIds)

\* Mutant of InsufficientStock: the last unit cannot be ordered.
InsufficientStockOrEqual(available, quantity) == available <= quantity

\* product.stock < item.quantity
InsufficientStock(available, quantity) == available < quantity

\* The item at which items.map(...) throws: "missing" when products.find
\* returns nothing, "short" when the stock check fails, "ok" otherwise.
ItemOutcome(products, item) ==
  IF item.productId \notin products THEN "missing"
  ELSE IF InsufficientStock(stock[item.productId], item.quantity) THEN "short"
  ELSE "ok"

FirstThrow(products, items) ==
  LET bad == {i \in 1..Len(items) : ItemOutcome(products, items[i]) # "ok"}
  IN IF bad = {} THEN 0 ELSE CHOOSE i \in bad : \A j \in bad : i <= j

\* Mutant of orderItemsData: only the first item of the list is kept.
orderItemsFirstOnly(items) ==
  [i \in 1..1 |-> [productId |-> items[i].productId,
                   price |-> price[items[i].productId],
                   quantity |-> items[i].quantity]]

orderItemsData(items) ==
  [i \in 1..Len(items) |-> [productId |-> items[i].productId,
                            price |-> price[items[i].productId],
                            quantity |-> items[i].quantity]]

\* Mutant of totalAmountOf: the quantity is left out of the item total.
totalIgnoringQuantity(items) ==
  SumSeq([i \in 1..Len(items) |-> price[items[i].productId]])

\* totalAmount += product.price * item.quantity, over the items in order
totalAmountOf(items) ==
  SumSeq([i \in 1..Len(items) |-> price[items[i].productId] * items[i].quantity])

InFlightCreates == Cardinality({w \in Procs : procs[w].kind = "createOrder"})

CreateOrderFrom(w, cap, customers) ==
  \E items \in ItemLists, email \in customers, claimed \in ClientTotals :
    /\ Len(orders) + InFlightCreates < cap
    /\ procs' = [procs EXCEPT ![w] =
                   [kind |-> "createOrder", pc |-> "findMany",
                    req |-> [items |-> items, customerEmail |-> email,
                             totalAmount |-> claimed]]]
    /\ nreq' = nreq + 1
    /\ out' = NoOut /\ UNCHANGED <<stock, price, orders, emails, lowered, faults, webhookSecretSet, adminKeySet, categories, created, nextIntent>>

CreateOrderStart(w, cap) == CreateOrderFrom(w, cap, Emails)

CreateOrderFind(w) ==
  /\ procs[w].kind = "createOrder" /\ procs[w].pc = "findMany"
  /\ LET req == procs[w].req
         items == req.items
         products == findMany(productIdsOf(items))
         t == FirstThrow(products, items)
         done(resp) == Finish(w, [kind |-> "createOrder", req |-> req, resp |-> resp])
     IN IF LengthMismatch(products, productIdsOf(items))
          THEN done(sendError("One or more products not found", 404))
        ELSE IF t # 0 /\ ItemOutcome(products, items[t]) = "missing"
          THEN done(sendError("Product not found", 404))
        ELSE IF t # 0
          THEN done([success |-> FALSE, code |-> 400,
                     message |-> "Insufficient stock",
                     product |-> items[t].productId,
                     available |-> stock[items[t].productId],
                     requested |-> items[t].quantity])
        ELSE /\ procs' = [procs EXCEPT ![w] =
                            [kind |-> "createOrder", pc |-> "create", req |-> req,
                             data |-> [items |-> orderItemsData(items),
                                       totalAmount |-> totalAmountOf(items)]]]
             /\ out' = NoOut
  /\ UNCHANGED <<stock, price, orders, emails, lowered, nreq, faults, webhookSecretSet, adminKeySet, categories, created, pre, nextIntent>>

\* prisma.order.create with nested items: one atomic insert.
CreateOrderCreate(w) ==
  /\ procs[w].kind = "createOrder" /\ procs[w].pc = "create"
  /\ LET req == procs[w].req
         order == [customerEmail |-> req.customerEmail,
                   totalAmount |-> procs[w].data.totalAmount,
                   status |-> "PENDING",
                   stripePaymentIntentId |-> 0,
                   items |-> procs[w].data.items]
     IN /\ orders' = Append(orders, order)
        /\ emails' = Append(emails, 0)
        /\ lowered' = Append(lowered, [i \in 1..Len(order.items) |-> 0])
        /\ Finish(w, [kind |-> "createOrder", req |-> req, id |-> Len(orders) + 1,
                      resp |-> sendSuccess(order, "Order created successfully", 201)])
  /\ UNCHANGED <<stock, price, nreq, faults, webhookSecretSet, adminKeySet, categories, created, pre, nextIntent>>

\* ---------------------------------------------------------- Stripe webhook
\* Mutant of constructEvent: any signature that is present is accepted.
constructEventAny(req) == TRUE

\* stripe.webhooks.constructEvent(body, sig, secret) throws unless the
\* signature verifies against the secret.
constructEvent(req) == req.sig = "good"

\* Mutant of SettleGuard: any order that exists is settled.
SettleGuardFound(order) == order.found

\* Mutant of SettleGuard: the status is compared with the wrong constant.
SettleGuardPaid(order) == order.found /\ order.status = "PAID"

\* Mutant of SettleGuard: every order that is not PAID yet is settled.
SettleGuardNotPaid(order) == order.found /\ order.status # "PAID"

\* order && order.status === 'PENDING'
SettleGuard(order) == order.found /\ order.status = "PENDING"

\* prisma.order.findUnique({ where: { id }, include: { items } }): the row
\* with its items, or null.
findUnique(id) ==
  IF OrderExists(id)
    THEN [found |-> TRUE, id |-> id, status |-> orders[id].status,
          customerEmail |-> orders[id].customerEmail,
          totalAmount |-> orders[id].totalAmount,
          stripePaymentIntentId |-> orders[id].stripePaymentIntentId,
          items |-> orders[id].items]
    ELSE NoSnap

\* Mutant of webhookCatch: the failure is acknowledged like a success.
webhookCatchAck == sendSuccess("received", "Webhook processed successfully", 200)

\* Mutant of webhookCatch: the failure is answered like a bad signature.
webhookCatchBadRequest == sendError("Webhook Error", 400)

\* The handler's outer catch: res.status(500).json({ error: 'Webhook processing failed' })
webhookCatch == sendError("Webhook processing failed", 500)

WebhookIds == {NoOrderId, UnknownOrder} \cup (1..Len(orders))

WebhookStart(w) ==
  \E sig \in Signatures, type \in EventTypes, oid \in WebhookIds :
    LET req == [sig |-> sig, type |-> type, orderId |-> oid]
        done(resp) == /\ out' = [kind |-> "webhook", req |-> req, resp |-> resp,
                                  order |-> NoSnap]
                      /\ UNCHANGED procs
        ack == sendSuccess("received", "Webhook processed successfully", 200)
        go(pc) == /\ procs' = [procs EXCEPT ![w] =
                                 [kind |-> "webhook", pc |-> pc, req |-> req,
                                  order |-> NoSnap, i |-> 0]]
                  /\ out' = NoOut
    IN /\ nreq' = nreq + 1
       /\ UNCHANGED <<stock, price, orders, emails, lowered, faults, webhookSecretSet, adminKeySet, categories, created, nextIntent>>
       /\ IF sig = "none"
            THEN done(sendError("Missing stripe-signature header", 400))
          ELSE IF ~webhookSecretSet
            THEN done(webhookCatch)
          ELSE IF ~constructEvent(req)
            THEN done(sendError("Webhook Error", 400))
          ELSE IF type = "payment_intent.succeeded"
            THEN IF oid # NoOrderId THEN go("findUnique") ELSE done(ack)
          ELSE IF type = "payment_intent.payment_failed"
            THEN IF oid # NoOrderId THEN go("markFailed") ELSE done(ack)
          ELSE done(ack)

WebhookDone(w, resp, sent) ==
  Finish(w, [kind |-> "webhook", req |-> procs[w].req, resp |-> resp,
             order |-> procs[w].order, emailSent |-> sent])

WebhookFind(w) ==
  /\ procs[w].kind = "webhook" /\ procs[w].pc = "findUnique"
  /\ LET order == findUnique(procs[w].req.orderId)
     IN IF SettleGuard(order)
          THEN /\ procs' = [procs EXCEPT ![w].pc = "markPaid", ![w].order = order]
               /\ out' = NoOut
          ELSE Finish(w, [kind |-> "webhook", req |-> procs[w].req, order |-> order,
                          emailSent |-> FALSE,
                          resp |-> sendSuccess("received", "Webhook processed successfully", 200)])
  /\ UNCHANGED <<stock, price, orders, emails, lowered, nreq, faults, webhookSecretSet, adminKeySet, categories, created, pre, nextIntent>>

WebhookMarkPaid(w) ==
  /\ procs[w].kind = "webhook" /\ procs[w].pc = "markPaid"
  /\ orders' = [orders EXCEPT ![procs[w].req.orderId].status = "PAID"]
  /\ procs' = [procs EXCEPT ![w].pc = "decrement", ![w].i = 1]
  /\ out' = NoOut /\ UNCHANGED <<stock, price, emails, lowered, nreq, faults, webhookSecretSet, adminKeySet, categories, created, pre, nextIntent>>

\* Mutant of Decrement: the stock goes down by one per item, not by the quantity.
DecrementOne(current, item) == current - 1

\* stock: { decrement: item.quantity }
Decrement(current, item) == current - item.quantity

WebhookDecrement(w) ==
  /\ procs[w].kind = "webhook" /\ procs[w].pc = "decrement"
  /\ LET oid == procs[w].order.id
         i == procs[w].i
         item == procs[w].order.items[i]
     IN \/ /\ stock' = [stock EXCEPT ![item.productId] = Decrement(@, item)]
           /\ lowered' = [lowered EXCEPT ![oid][i] = @ + (stock[item.productId] - stock'[item.productId])]
           /\ procs' = [procs EXCEPT ![w].i = i + 1,
                                     ![w].pc = IF i = Len(procs[w].order.items)
                                               THEN "email" ELSE "decrement"]
           /\ out' = NoOut /\ UNCHANGED faults
        \/ /\ faults < MaxFaults
           /\ faults' = faults + 1
           /\ WebhookDone(w, webhookCatch, FALSE)
           /\ UNCHANGED <<stock, lowered>>
  /\ UNCHANGED <<price, orders, emails, nreq, webhookSecretSet, adminKeySet, categories, created, pre, nextIntent>>

\* Mutant of afterEmail: a failed send reaches the handler's outer catch.
afterEmailUncaught(sent) ==
  IF sent THEN sendSuccess("received", "Webhook processed successfully", 200)
  ELSE sendError("Webhook processing failed", 500)

\* The send sits in its own try/catch: sent or not, the handler goes on to
\* res.json({ received: true }).
afterEmail(sent) == sendSuccess("received", "Webhook processed successfully", 200)

WebhookEmail(w) ==
  /\ procs[w].kind = "webhook" /\ procs[w].pc = "email"
  /\ \E sent \in BOOLEAN :
       /\ emails' = [emails EXCEPT ![procs[w].order.id] = IF sent THEN @ + 1 ELSE @]
       /\ WebhookDone(w, afterEmail(sent), sent)
  /\ UNCHANGED <<stock, price, orders, lowered, nreq, faults, webhookSecretSet, adminKeySet, categories, created, pre, nextIntent>>

\* Mutant of markFailed: only an order still PENDING is marked.
markFailedIfPending(order) ==
  IF order.status = "PENDING" THEN [order EXCEPT !.status = "FAILED"] ELSE order

\* Mutant of markFailed: the failed order's total is cleared as well.
markFailedAndVoid(order) == [order EXCEPT !.status = "FAILED", !.totalAmount = 0]

\* prisma.order.update({ where: { id: orderId }, data: { status: 'FAILED' } })
markFailed(order) == [order EXCEPT !.status = "FAILED"]

\* prisma.order.update throws when no row has the id; the outer catch answers 500.
WebhookMarkFailed(w) ==
  /\ procs[w].kind = "webhook" /\ procs[w].pc = "markFailed"
  /\ LET oid == procs[w].req.orderId
     IN IF OrderExists(oid)
          THEN /\ orders' = [orders EXCEPT ![oid] = markFailed(@)]
               /\ WebhookDone(w, sendSuccess("received", "Webhook processed successfully", 200), FALSE)
          ELSE /\ UNCHANGED orders
               /\ WebhookDone(w, webhookCatch, FALSE)
  /\ UNCHANGED <<stock, price, emails, lowered, nreq, faults, webhookSecretSet, adminKeySet, categories, created, pre, nextIntent>>

\* ------------------------------------------------------ createPaymentIntent
\* Mutant of amountInCents: the fraction of a cent is cut off.
amountTruncated(totalAmount) == totalAmount \div 10

\* Math.round(order.totalAmount * 100).  Money is counted in tenths of a
\* cent, so the conversion to cents rounds half up as Math.round does.
amountInCents(totalAmount) == (totalAmount + 5) \div 10

\* Mutant of NotPending: only an order that is already paid is turned away.
NotPendingOnlyPaid(order) == order.status = "PAID"

\* order.status !== 'PENDING'
NotPending(order) == order.status # "PENDING"

\* Mutant of intentUpdate: the first identifier stored on an order is kept.
intentUpdateOnce(order, paymentIntent) ==
  IF order.stripePaymentIntentId = 0
    THEN [order EXCEPT !.stripePaymentIntentId = paymentIntent.id]
    ELSE order

\* Mutant of intentUpdate: the order is written back as PENDING.
intentUpdateKeepPending(order, paymentIntent) ==
  [order EXCEPT !.stripePaymentIntentId = paymentIntent.id, !.status = "PENDING"]

\* prisma.order.update({ where: { id }, data: { stripePaymentIntentId: paymentIntent.id } })
intentUpdate(order, paymentIntent) ==
  [order EXCEPT !.stripePaymentIntentId = paymentIntent.id]

KnownIds == {UnknownOrder} \cup (1..Len(orders))

PaymentStart(w) ==
  \E id \in KnownIds :
    /\ procs' = [procs EXCEPT ![w] =
                   [kind |-> "createPaymentIntent", pc |-> "findUnique",
                    req |-> [id |-> id], order |-> NoSnap]]
    /\ nreq' = nreq + 1
    /\ out' = NoOut
    /\ UNCHANGED <<stock, price, orders, emails, lowered, faults, webhookSecretSet, adminKeySet, categories, created, nextIntent>>

PaymentDone(w, resp) ==
  Finish(w, [kind |-> "createPaymentIntent", req |-> procs[w].req, resp |-> resp])

PaymentFind(w) ==
  /\ procs[w].kind = "createPaymentIntent" /\ procs[w].pc = "findUnique"
  /\ LET order == findUnique(procs[w].req.id)
     IN IF ~order.found
          THEN PaymentDone(w, sendError("Order not found", 404))
        ELSE IF NotPending(order)
          THEN PaymentDone(w, sendError("Order is not in pending status", 400))
        ELSE /\ procs' = [procs EXCEPT ![w].pc = "stripe", ![w].order = order]
             /\ out' = NoOut
  /\ UNCHANGED <<stock, price, orders, emails, lowered, nreq, faults, webhookSecretSet, adminKeySet, categories, created, pre, nextIntent>>

\* stripe.paymentIntents.create: the processor answers with a fresh intent,
\* or the call throws and the handler answers 500.
PaymentStripe(w) ==
  /\ procs[w].kind = "createPaymentIntent" /\ procs[w].pc = "stripe"
  /\ \/ /\ procs' = [procs EXCEPT ![w] =
                       [kind |-> "createPaymentIntent", pc |-> "store",
                        req |-> procs[w].req, order |-> procs[w].order,
                        intent |-> [id |-> nextIntent,
                                    client_secret |-> [secretOf |-> nextIntent],
                                    amount |-> amountInCents(procs[w].order.totalAmount),
                                    currency |-> "usd",
                                    metadata |-> [orderId |-> procs[w].order.id,
                                                  customerEmail |-> procs[w].order.customerEmail]]]]
        /\ nextIntent' = nextIntent + 1
        /\ out' = NoOut
     \/ /\ PaymentDone(w, sendError("Failed to create payment intent", 500))
        /\ UNCHANGED nextIntent
  /\ UNCHANGED <<stock, price, orders, emails, lowered, nreq, faults, webhookSecretSet, adminKeySet, categories, created, pre>>

PaymentStore(w) ==
  /\ procs[w].kind = "createPaymentIntent" /\ procs[w].pc = "store"
  /\ LET id == procs[w].req.id
         intent == procs[w].intent
     IN /\ orders' = [orders EXCEPT ![id] = intentUpdate(@, intent)]
        /\ Finish(w, [kind |-> "createPaymentIntent", req |-> procs[w].req,
                      intent |-> intent,
                      resp |-> sendSuccess([order |-> orders'[id], clientSecret |-> intent.client_secret],
                                           "Payment intent created successfully", 200)])
  /\ UNCHANGED <<stock, price, emails, lowered, nreq, faults, webhookSecretSet, adminKeySet, categories, created, pre, nextIntent>>

\* -------------------------------------------------------- updateOrderStatus
TargetStatuses == Statuses \cup {"REFUNDED"}

\* Mutant of updateOrderStatusSchema: the body is not validated.
updateOrderStatusSchemaAny(body) == TRUE

\* z.enum(['PENDING', 'PAID', 'FAILED', 'CANCELLED']) of updateOrderStatusSchema
updateOrderStatusSchema(body) == body.status \in {"PENDING", "PAID", "FAILED", "CANCELLED"}

\* validStatuses.includes(status)
validStatuses(status) == status \in {"PENDING", "PAID", "FAILED", "CANCELLED"}

\* Mutant of AdminSettles: the status read before the update is not looked at.
AdminSettlesAlways(status, order) == status = "PAID"

\* status === 'PAID' && order.status !== 'PAID'
AdminSettles(status, order) == status = "PAID" /\ order.status # "PAID"

\* adminAuth: answers 500 when no ADMIN_API_KEY is configured and calls
\* next() otherwise; the header it reads is compared with nothing.
adminAuth(req) == IF ~adminKeySet THEN "notConfigured" ELSE "next"

AdminStart(w) ==
  \E id \in KnownIds, status \in TargetStatuses, apiKey \in ApiKeys :
    LET req == [id |-> id, status |-> status, apiKey |-> apiKey]
    IN /\ nreq' = nreq + 1
       /\ UNCHANGED <<stock, price, orders, emails, lowered, faults, webhookSecretSet, adminKeySet, categories, created, nextIntent>>
       /\ IF adminAuth(req) # "next"
            THEN /\ out' = [kind |-> "updateOrderStatus", req |-> req, order |-> NoSnap,
                            resp |-> sendError("Admin authentication not configured", 500)]
                 /\ UNCHANGED procs
          ELSE IF ~updateOrderStatusSchema(req)
            THEN /\ out' = [kind |-> "updateOrderStatus", req |-> req, order |-> NoSnap,
                            resp |-> sendError("Validation failed", 400)]
                 /\ UNCHANGED procs
            ELSE /\ procs' = [procs EXCEPT ![w] =
                                [kind |-> "updateOrderStatus", pc |-> "findUnique",
                                 req |-> req, order |-> NoSnap, updatedOrder |-> NoSnap,
                                 i |-> 0, errs |-> 0]]
                 /\ out' = NoOut

AdminDone(w, resp, sent) ==
  Finish(w, [kind |-> "updateOrderStatus", req |-> procs[w].req, resp |-> resp,
             order |-> procs[w].order, emailSent |-> sent, errs |-> procs[w].errs])

AdminFind(w) ==
  /\ procs[w].kind = "updateOrderStatus" /\ procs[w].pc = "findUnique"
  /\ LET order == findUnique(procs[w].req.id)
     IN IF ~order.found
          THEN AdminDone(w, sendError("Order not found", 404), FALSE)
        ELSE IF ~validStatuses(procs[w].req.status)
          THEN AdminDone(w, sendError("Invalid status", 400), FALSE)
        ELSE /\ procs' = [procs EXCEPT ![w].pc = "update", ![w].order = order]
             /\ out' = NoOut
  /\ UNCHANGED <<stock, price, orders, emails, lowered, nreq, faults, webhookSecretSet, adminKeySet, categories, created, pre, nextIntent>>

AdminUpdate(w) ==
  /\ procs[w].kind = "updateOrderStatus" /\ procs[w].pc = "update"
  /\ orders' = [orders EXCEPT ![procs[w].req.id].status = procs[w].req.status]
  /\ IF AdminSettles(procs[w].req.status, procs[w].order)
       THEN /\ procs' = [procs EXCEPT ![w].pc = "decrement", ![w].i = 1,
                                      ![w].updatedOrder = orders'[procs[w].req.id]]
            /\ out' = NoOut
       ELSE AdminDone(w, sendSuccess(orders'[procs[w].req.id],
                                     "Order status updated successfully", 200), FALSE)
  /\ UNCHANGED <<stock, price, emails, lowered, nreq, faults, webhookSecretSet, adminKeySet, categories, created, pre, nextIntent>>

\* Mutant of afterStockError: a failed update ends the loop.
afterStockErrorSkipRest(i, n) == "email"

\* The catch inside the loop: the for loop goes on with the next item, or
\* ends after the last one.
afterStockError(i, n) == IF i = n THEN "email" ELSE "decrement"

\* Each product.update sits in its own try/catch: a failure is logged and the
\* loop goes on with the next item.
AdminDecrement(w) ==
  /\ procs[w].kind = "updateOrderStatus" /\ procs[w].pc = "decrement"
  /\ LET oid == procs[w].order.id
         i == procs[w].i
         item == procs[w].order.items[i]
         nextPc == IF i = Len(procs[w].order.items) THEN "email" ELSE "decrement"
     IN \/ /\ stock' = [stock EXCEPT ![item.productId] = Decrement(@, item)]
           /\ lowered' = [lowered EXCEPT ![oid][i] = @ + (stock[item.productId] - stock'[item.productId])]
           /\ procs' = [procs EXCEPT ![w].i = i + 1, ![w].pc = nextPc]
           /\ UNCHANGED faults
        \/ /\ faults < MaxFaults
           /\ faults' = faults + 1
           /\ procs' = [procs EXCEPT ![w].i = i + 1, ![w].errs = @ + 1,
                                     ![w].pc = afterStockError(i, Len(procs[w].order.items))]
           /\ UNCHANGED <<stock, lowered>>
  /\ out' = NoOut
  /\ UNCHANGED <<price, orders, emails, nreq, webhookSecretSet, adminKeySet, categories, created, pre, nextIntent>>

AdminEmail(w) ==
  /\ procs[w].kind = "updateOrderStatus" /\ procs[w].pc = "email"
  /\ \E sent \in BOOLEAN :
       /\ emails' = [emails EXCEPT ![procs[w].order.id] = IF sent THEN @ + 1 ELSE @]
       /\ AdminDone(w, sendSuccess(procs[w].updatedOrder,
                                   "Order status updated successfully", 200), sent)
  /\ UNCHANGED <<stock, price, orders, lowered, nreq, faults, webhookSecretSet, adminKeySet, categories, created, pre, nextIntent>>

\* ----------------------------------------------------------------- catalog
NoCategory == 0
UnknownCategory == MaxCategoryReqs + MaxShopReqs + 1
\* price of a createProduct body: one the schema refuses, one it accepts
PriceInputs == {0, 4}
\* stock of a request body: absent, an integer, a number with a fraction
\* (value + 1/2), a string that reads as an integer
StockInputs ==
  {[kind |-> "absent", value |-> 0], [kind |-> "fraction", value |-> 1],
   [kind |-> "text", value |-> 1]}
    \cup {[kind |-> "int", value |-> v] : v \in -1..1}

\* price: z.coerce.number().positive(); stock: z.coerce.number().int().min(0).optional()
createProductSchema(body) ==
  /\ body.price > 0
  /\ \/ body.stock.kind = "absent"
     \/ body.stock.kind \in {"int", "text"} /\ body.stock.value >= 0

\* What prisma takes for the Int column `stock`: a number without fraction.
\* validate() parses the body and drops the parsed value, so a string that
\* passed the schema reaches prisma as a string.
IntColumnAccepts(given) == given.kind = "int"

\* stock || 0
stockOrZero(given) == IF given.kind = "absent" THEN [kind |-> "int", value |-> 0] ELSE given

ProductStart(w) ==
  \E bodyPrice \in PriceInputs, bodyStock \in StockInputs,
     categoryId \in {NoCategory, UnknownCategory} \cup (1..Len(categories)) :
    LET req == [price |-> bodyPrice, stock |-> bodyStock, categoryId |-> categoryId]
        done(resp) == /\ out' = [kind |-> "createProduct", req |-> req, resp |-> resp]
                      /\ UNCHANGED procs
    IN /\ Len(created) < MaxCreated
       /\ nreq' = nreq + 1
       /\ UNCHANGED <<stock, price, orders, emails, lowered, faults, webhookSecretSet, adminKeySet, categories, created, nextIntent>>
       /\ IF adminAuth(req) # "next"
            THEN done(sendError("Admin authentication not configured", 500))
          ELSE IF ~createProductSchema(req)
            THEN done(sendError("Validation failed", 400))
          ELSE /\ procs' = [procs EXCEPT ![w] =
                              [kind |-> "createProduct", req |-> req,
                               pc |-> IF categoryId # NoCategory THEN "findCategory" ELSE "create"]]
               /\ out' = NoOut

ProductFindCategory(w) ==
  /\ procs[w].kind = "createProduct" /\ procs[w].pc = "findCategory"
  /\ IF procs[w].req.categoryId \in 1..Len(categories)
       THEN procs' = [procs EXCEPT ![w].pc = "create"] /\ out' = NoOut
       ELSE Finish(w, [kind |-> "createProduct", req |-> procs[w].req,
                       resp |-> sendError("Category not found", 404)])
  /\ UNCHANGED <<stock, price, orders, emails, lowered, nreq, faults, webhookSecretSet, adminKeySet, categories, created, pre, nextIntent>>

ProductCreate(w) ==
  /\ procs[w].kind = "createProduct" /\ procs[w].pc = "create"
  /\ LET req == procs[w].req
         data == [price |-> req.price, stock |-> stockOrZero(req.stock),
                  categoryId |-> req.categoryId]
     IN IF IntColumnAccepts(data.stock)
          THEN /\ created' = Append(created, [data EXCEPT !.stock = data.stock.value])
               /\ Finish(w, [kind |-> "createProduct", req |-> req,
                             resp |-> sendSuccess(created'[Len(created')],
                                                  "Product created successfully", 201)])
          ELSE /\ UNCHANGED created
               /\ Finish(w, [kind |-> "createProduct", req |-> req,
                             resp |-> sendError("Failed to create product", 500)])
  /\ UNCHANGED <<stock, price, orders, emails, lowered, nreq, faults, webhookSecretSet, adminKeySet, categories, pre, nextIntent>>

StockStart(w) ==
  \E id \in ProductIds, bodyStock \in StockInputs :
    LET req == [id |-> id, stock |-> bodyStock]
    IN /\ nreq' = nreq + 1
       /\ UNCHANGED <<stock, price, orders, emails, lowered, faults, webhookSecretSet, adminKeySet, categories, created, nextIntent>>
       /\ IF adminAuth(req) # "next"
            THEN /\ out' = [kind |-> "updateProductStock", req |-> req,
                            resp |-> sendError("Admin authentication not configured", 500)]
                 /\ UNCHANGED procs
            ELSE /\ procs' = [procs EXCEPT ![w] =
                                [kind |-> "updateProductStock", pc |-> "findUnique", req |-> req]]
                 /\ out' = NoOut

StockFind(w) ==
  /\ procs[w].kind = "updateProductStock" /\ procs[w].pc = "findUnique"
  /\ IF procs[w].req.id \in Products
       THEN procs' = [procs EXCEPT ![w].pc = "update"] /\ out' = NoOut
       ELSE Finish(w, [kind |-> "updateProductStock", req |-> procs[w].req,
                       resp |-> sendError("Product not found", 404)])
  /\ UNCHANGED <<stock, price, orders, emails, lowered, nreq, faults, webhookSecretSet, adminKeySet, categories, created, pre, nextIntent>>

\* prisma.product.update({ where: { id }, data: { stock } }): an absent
\* stock writes nothing, an integer is stored as it is, anything else throws.
StockUpdate(w) ==
  /\ procs[w].kind = "updateProductStock" /\ procs[w].pc = "update"
  /\ LET req == procs[w].req
         done(resp) == Finish(w, [kind |-> "updateProductStock", req |-> req, resp |-> resp])
     IN IF req.stock.kind = "absent"
          THEN /\ UNCHANGED stock
               /\ done(sendSuccess(stock[req.id], "Product stock updated successfully", 200))
        ELSE IF IntColumnAccepts(req.stock)
          THEN /\ stock' = [stock EXCEPT ![req.id] = req.stock.value]
               /\ done(sendSuccess(stock'[req.id], "Product stock updated successfully", 200))
        ELSE /\ UNCHANGED stock
             /\ done(sendError("Failed to update product stock", 500))
  /\ UNCHANGED <<price, orders, emails, lowered, nreq, faults, webhookSecretSet, adminKeySet, categories, created, pre, nextIntent>>

\* -------------------------------------------------------------- categories
\* A string is the sequence of its characters.
UpperLetters == <<"A", "B", "C", "D", "E", "F", "G", "H", "I", "J", "K", "L", "M",
                  "N", "O", "P", "Q", "R", "S", "T", "U", "V", "W", "X", "Y", "Z">>
LowerLetters == <<"a", "b", "c", "d", "e", "f", "g", "h", "i", "j", "k", "l", "m",
                  "n", "o", "p", "q", "r", "s", "t", "u", "v", "w", "x", "y", "z">>
Digits == {"0", "1", "2", "3", "4", "5", "6", "7", "8", "9"}

NameChars == {"G", " ", "!", "-"}
GreatDeals == <<"G", "r", "e", "a", "t", " ", "D", "e", "a", "l", "s", "!", "!">>
Names == UNION {[1..n -> NameChars] : n \in 0..MaxNameLen} \cup {GreatDeals}
\* Names whose slug an earlier category may already hold.
RepeatNames == {<<"G">>, <<"g", "!">>}
ShopNames == {<<"G">>}
SlugInputs == {[given |-> FALSE, text |-> <<>>],
               [given |-> TRUE, text |-> <<" ">>],
               [given |-> TRUE, text |-> <<"G", " ", "d">>]}

toLowerChar(c) ==
  IF \E k \in 1..Len(UpperLetters) : UpperLetters[k] = c
    THEN LowerLetters[CHOOSE k \in 1..Len(UpperLetters) : UpperLetters[k] = c]
    ELSE c

\* String.prototype.toLowerCase
toLowerCase(text) == [i \in 1..Len(text) |-> toLowerChar(text[i])]

\* \s
IsSpace(c) == c = " "

RECURSIVE trimStart(_)
trimStart(text) ==
  IF text # <<>> /\ IsSpace(Head(text)) THEN trimStart(Tail(text)) ELSE text

RECURSIVE trimEnd(_)
trimEnd(text) ==
  IF text # <<>> /\ IsSpace(text[Len(text)])
    THEN trimEnd(SubSeq(text, 1, Len(text) - 1))
    ELSE text

\* String.prototype.trim
trim(text) == trimEnd(trimStart(text))

\* Mutant of replaceWhitespaceRuns: every whitespace character gets a hyphen.
replaceEachWhitespace(text) ==
  [i \in 1..Len(text) |-> IF IsSpace(text[i]) THEN "-" ELSE text[i]]

\* .replace(/\s+/g, '-')
RECURSIVE replaceWhitespaceRuns(_)
replaceWhitespaceRuns(text) ==
  IF text = <<>> THEN <<>>
  ELSE IF IsSpace(Head(text)) THEN <<"-">> \o replaceWhitespaceRuns(trimStart(Tail(text)))
  ELSE <<Head(text)>> \o replaceWhitespaceRuns(Tail(text))

\* [a-z0-9-]
IsSlugChar(c) ==
  \/ \E k \in 1..Len(LowerLetters) : LowerLetters[k] = c
  \/ c \in Digits
  \/ c = "-"

\* .replace(/[^a-z0-9-]/g, '')
removeNonSlugChars(text) == SelectSeq(text, IsSlugChar)

\* name.toLowerCase().trim().replace(/\s+/g, '-').replace(/[^a-z0-9-]/g, '')
slugOfName(name) == removeNonSlugChars(replaceWhitespaceRuns(trim(toLowerCase(name))))

\* slug.trim().toLowerCase().replace(/\s+/g, '-').replace(/[^a-z0-9-]/g, '')
slugOfSlug(slug) == removeNonSlugChars(replaceWhitespaceRuns(toLowerCase(trim(slug))))

\* (slug && slug.trim() !== '') ? ... : ...
categorySlug(body) ==
  IF body.slug.given /\ body.slug.text # <<>> /\ trim(body.slug.text) # <<>>
    THEN slugOfSlug(body.slug.text)
    ELSE slugOfName(body.name)

\* name: z.string().min(1); slug: z.string().min(1).optional()
createCategorySchema(body) ==
  /\ Len(body.name) >= 1
  /\ body.slug.given => Len(body.slug.text) >= 1

CategoryStart(w, names) ==
  \E name \in names, slug \in SlugInputs :
    LET req == [name |-> name, slug |-> slug]
        done(resp) == /\ out' = [kind |-> "createCategory", req |-> req, resp |-> resp]
                      /\ UNCHANGED procs
    IN /\ nreq' = nreq + 1
       /\ UNCHANGED <<stock, price, orders, emails, lowered, faults, webhookSecretSet, adminKeySet, categories, created, nextIntent>>
       /\ IF adminAuth(req) # "next"
            THEN done(sendError("Admin authentication not configured", 500))
          ELSE IF ~createCategorySchema(req)
            THEN done(sendError("Validation failed", 400))
          ELSE IF categorySlug(req) = <<>>
            THEN done(sendError("Category name must contain at least one alphanumeric character", 400))
          ELSE /\ procs' = [procs EXCEPT ![w] =
                              [kind |-> "createCategory", pc |-> "create", req |-> req,
                               data |-> [name |-> name, slug |-> categorySlug(req)]]]
               /\ out' = NoOut

\* prisma.category.create: the slug column is unique (error P2002).
CategoryCreate(w) ==
  /\ procs[w].kind = "createCategory" /\ procs[w].pc = "create"
  /\ LET done(resp) == Finish(w, [kind |-> "createCategory", req |-> procs[w].req, resp |-> resp])
     IN IF \E c \in 1..Len(categories) : categories[c].slug = procs[w].data.slug
          THEN /\ UNCHANGED categories
               /\ done(sendError("Category with this name or slug already exists", 400))
          ELSE /\ categories' = Append(categories, procs[w].data)
               /\ done(sendSuccess(procs[w].data, "Category created successfully", 201))
  /\ UNCHANGED <<stock, price, orders, emails, lowered, nreq, faults, webhookSecretSet, adminKeySet, created, pre, nextIntent>>

CatalogStep(w) ==
  \/ ProductFindCategory(w)
  \/ ProductCreate(w)
  \/ StockFind(w)
  \/ StockUpdate(w)
  \/ CategoryCreate(w)

\* ---------------------------------------------------------- specifications
Init ==
  /\ stock \in [Products -> 1..MaxStock]
  /\ price = [p \in Products |-> UnitPrice(p)]
  /\ orders = <<>>
  /\ procs = [w \in Procs |-> Idle]
  /\ out = NoOut
  /\ emails = <<>>
  /\ lowered = <<>>
  /\ nreq = 0
  /\ faults = 0
  /\ webhookSecretSet \in BOOLEAN
  /\ adminKeySet \in BOOLEAN
  /\ categories = <<>>
  /\ created = <<>>
  /\ nextIntent = 1
  /\ pre = [stock |-> stock, orders |-> orders, emails |-> emails, nextIntent |-> nextIntent,
            categories |-> categories, created |-> created, lowered |-> lowered]

\* Requests arrive while other handlers are in flight.
Admit(w) == FreeSlot(w) /\ nreq < MaxReqs /\ pre' = pre

\* Requests arrive only when no handler is in flight; `pre` keeps the
\* datastore as the request found it.
AdmitSeq(w) == Busy = {} /\ FreeSlot(w) /\ nreq < MaxSeqReqs /\ pre' = Db

Step(w) ==
  \/ CreateOrderFind(w)
  \/ CreateOrderCreate(w)
  \/ PaymentFind(w)
  \/ PaymentStripe(w)
  \/ PaymentStore(w)
  \/ WebhookFind(w)
  \/ WebhookMarkPaid(w)
  \/ WebhookDecrement(w)
  \/ WebhookEmail(w)
  \/ WebhookMarkFailed(w)

AdminStep(w) ==
  \/ AdminFind(w)
  \/ AdminUpdate(w)
  \/ AdminDecrement(w)
  \/ AdminEmail(w)

Next ==
  \E w \in Procs :
    \/ Admit(w) /\ CreateOrderStart(w, MaxOrders)
    \/ Admit(w) /\ PaymentStart(w)
    \/ Admit(w) /\ WebhookStart(w)
    \/ Admit(w) /\ AdminStart(w)
    \/ Step(w)
    \/ AdminStep(w)

Spec == Init /\ [][Next]_vars

NextSeq ==
  \E w \in Procs :
    \/ AdmitSeq(w) /\ CreateOrderStart(w, MaxSeqOrders)
    \/ AdmitSeq(w) /\ PaymentStart(w)
    \/ AdmitSeq(w) /\ WebhookStart(w)
    \/ AdmitSeq(w) /\ AdminStart(w)
    \/ Step(w)
    \/ AdminStep(w)

SpecSeq == Init /\ [][NextSeq]_vars

\* The webhook deliveries and the buyer's requests alone: no admin override.
NextHooks ==
  \E w \in Procs :
    \/ Admit(w) /\ CreateOrderStart(w, MaxOrders)
    \/ Admit(w) /\ PaymentStart(w)
    \/ Admit(w) /\ WebhookStart(w)
    \/ Step(w)

SpecHooks == Init /\ [][NextHooks]_vars

\* The buyers' requests and the webhook deliveries, overlapping, with orders
\* of two different customers.
NextBuyers ==
  \E w \in Procs :
    \/ Admit(w) /\ CreateOrderFrom(w, MaxOrders, BuyerEmails)
    \/ Admit(w) /\ PaymentStart(w)
    \/ Admit(w) /\ WebhookStart(w)
    \/ Step(w)

SpecBuyers == Init /\ [][NextBuyers]_vars

\* One handler at a time, every operation of the store: orders, payments,
\* webhooks, admin overrides and catalog writes.
AdmitShop(w) == Busy = {} /\ FreeSlot(w) /\ nreq < MaxShopReqs /\ pre' = Db

NextShop ==
  \E w \in Procs :
    \/ AdmitShop(w) /\ CreateOrderStart(w, MaxSeqOrders)
    \/ AdmitShop(w) /\ PaymentStart(w)
    \/ AdmitShop(w) /\ WebhookStart(w)
    \/ AdmitShop(w) /\ AdminStart(w)
    \/ AdmitShop(w) /\ ProductStart(w)
    \/ AdmitShop(w) /\ StockStart(w)
    \/ AdmitShop(w) /\ CategoryStart(w, ShopNames)
    \/ Step(w)
    \/ AdminStep(w)
    \/ CatalogStep(w)

SpecShop == Init /\ [][NextShop]_vars

\* Category creation alone, one request at a time: any name first, then
\* names that may collide with the category created.
AdmitCategory(w) == Busy = {} /\ FreeSlot(w) /\ nreq < MaxCategoryReqs /\ pre' = Db

NextCategories ==
  \E w \in Procs :
    \/ AdmitCategory(w) /\ categories = <<>> /\ CategoryStart(w, Names)
    \/ AdmitCategory(w) /\ categories # <<>> /\ CategoryStart(w, RepeatNames)
    \/ CategoryCreate(w)

SpecCategories == Init /\ [][NextCategories]_vars

\* One handler at a time, with room for a second order.
AdmitTwo(w) == Busy = {} /\ FreeSlot(w) /\ nreq < MaxTwoReqs /\ pre' = Db

NextTwoOrders ==
  \E w \in Procs :
    \/ AdmitTwo(w) /\ CreateOrderStart(w, MaxTwoOrders)
    \/ AdmitTwo(w) /\ PaymentStart(w)
    \/ AdmitTwo(w) /\ WebhookStart(w)
    \/ AdmitTwo(w) /\ AdminStart(w)
    \/ Step(w)
    \/ AdminStep(w)

SpecTwoOrders == Init /\ [][NextTwoOrders]_vars

\* ------------------------------------------------------------------ claims
\* Quantity of product p ordered by an item list.
QtyOf(items, p) ==
  SumSeq([i \in 1..Len(items) |-> IF items[i].productId = p THEN items[i].quantity ELSE 0])

\* The step just taken answered a webhook whose signature verified and whose
\* event is payment_intent.succeeded.
VerifiedSucceeded ==
  /\ out.kind = "webhook"
  /\ out.req.sig = "good" /\ webhookSecretSet
  /\ out.req.type = "payment_intent.succeeded"

DbUnchanged == stock = pre.stock /\ orders = pre.orders /\ emails = pre.emails

\* C1: with one handler at a time, a verified payment_intent.succeeded event
\* naming an order that is PENDING, once acknowledged, leaves that order PAID
\* and every product's stock lowered by exactly the quantity the order's
\* items ask of it (zero for a product the order does not name).
C1_PendingOrderSettled ==
  \A o \in 1..Len(pre.orders) :
    (/\ VerifiedSucceeded
     /\ out.req.orderId = o
     /\ pre.orders[o].status = "PENDING"
     /\ out.resp.code = 200)
    => /\ orders[o].status = "PAID"
       /\ \A p \in Products : stock[p] = pre.stock[p] - QtyOf(orders[o].items, p)

C1_Witness ==
  /\ VerifiedSucceeded
  /\ out.req.orderId \in 1..Len(pre.orders)
  /\ pre.orders[out.req.orderId].status = "PENDING"
  /\ out.resp.code = 200
  /\ Len(orders[out.req.orderId].items) = 2
  /\ orders[out.req.orderId].items[1].quantity = 2
  /\ orders[out.req.orderId].status = "PAID"

\* C2: with one handler at a time, a verified payment_intent.succeeded event
\* that carries no orderId, names no existing order, or names an order that
\* is not PENDING changes no order, no stock and sends no email, and is
\* acknowledged with success.
C2_NoopUnlessPending ==
  (/\ VerifiedSucceeded
   /\ \/ out.req.orderId = NoOrderId
      \/ out.req.orderId \notin 1..Len(pre.orders)
      \/ pre.orders[out.req.orderId].status # "PENDING")
  => /\ DbUnchanged
     /\ out.resp.code = 200 /\ out.resp.success

\* A second delivery for an order an earlier settlement has made PAID.
C2_Witness ==
  /\ VerifiedSucceeded
  /\ out.req.orderId \in 1..Len(pre.orders)
  /\ pre.orders[out.req.orderId].status = "PAID"
  /\ \A i \in 1..Len(orders[out.req.orderId].items) :
       lowered[out.req.orderId][i] = orders[out.req.orderId].items[i].quantity
  /\ emails[out.req.orderId] = 1
  /\ DbUnchanged
  /\ out.resp.code = 200

\* C3: whatever the interleaving of the webhook deliveries, the settlement of
\* an order lowers each item's product stock by the item's quantity at most
\* once in total and sends at most one confirmation email.
C3_SettledOnce ==
  \A o \in 1..Len(orders) :
    /\ \A i \in 1..Len(orders[o].items) : lowered[o][i] <= orders[o].items[i].quantity
    /\ emails[o] <= 1

\* C4: with one handler at a time, a webhook request without a signature
\* header, or whose signature fails verification against the configured
\* secret, is answered 400 and changes no order and no stock.
C4_BadSignatureRejected ==
  (/\ out.kind = "webhook"
   /\ \/ out.req.sig = "none"
      \/ out.req.sig = "bad" /\ webhookSecretSet)
  => /\ out.resp.code = 400 /\ ~out.resp.success
     /\ DbUnchanged

C4_Witness ==
  /\ out.kind = "webhook"
  /\ out.req.sig = "bad" /\ webhookSecretSet
  /\ out.req.type = "payment_intent.succeeded"
  /\ out.req.orderId \in 1..Len(orders)
  /\ orders[out.req.orderId].status = "PENDING"
  /\ out.resp.code = 400

\* C5: every product's stock is >= 0 in every reachable state.
C5_StockNeverNegative == \A p \in Products : stock[p] >= 0

\* C6: when an admin override to PAID and a payment_intent.succeeded webhook
\* for the same order have both read it as PENDING and both finished their
\* decrement loops without a datastore failure, each item's product stock has
\* been lowered by at least twice the item's quantity.
BothSettling(a, w) ==
  /\ procs[a].kind = "updateOrderStatus" /\ procs[a].req.status = "PAID"
  /\ procs[w].kind = "webhook" /\ procs[w].req.type = "payment_intent.succeeded"
  /\ procs[a].pc = "email" /\ procs[w].pc = "email"
  /\ procs[a].order.id = procs[w].order.id
  /\ procs[a].order.status = "PENDING" /\ procs[w].order.status = "PENDING"
  /\ procs[a].errs = 0

C6_BothPathsDecrement ==
  \A a \in Procs, w \in Procs :
    BothSettling(a, w)
    => LET o == procs[a].order.id
       IN \A i \in 1..Len(orders[o].items) :
            lowered[o][i] >= 2 * orders[o].items[i].quantity

\* The interleaving itself: both handlers have run their loops for the one
\* order there is, and the stock is down by twice the ordered quantities.
C6_Witness ==
  \E a \in Procs, w \in Procs :
    /\ BothSettling(a, w)
    /\ Len(orders) = 1 /\ nreq = 3
    /\ Len(orders[1].items) = 2
    /\ \A p \in Products : stock[p] = pre.stock[p] - 2 * QtyOf(orders[1].items, p)

\* C7: every order's totalAmount is the sum over its items of recorded price
\* times quantity, every item's recorded price is the catalogue price of its
\* product, and the total answered by createOrder is computed from the
\* catalogue and the request's items, whatever total the request carried.
C7_TotalIsSumOfItems ==
  /\ \A o \in 1..Len(orders) :
       LET items == orders[o].items
       IN /\ orders[o].totalAmount =
               SumSeq([i \in 1..Len(items) |-> items[i].price * items[i].quantity])
          /\ \A i \in 1..Len(items) : items[i].price = price[items[i].productId]
  /\ (out.kind = "createOrder" /\ out.resp.code = 201)
     => out.resp.data.totalAmount =
          SumSeq([i \in 1..Len(out.req.items) |->
                    price[out.req.items[i].productId] * out.req.items[i].quantity])

C7_Witness ==
  /\ out.kind = "createOrder" /\ out.resp.code = 201
  /\ Len(out.req.items) = 2
  /\ out.req.items[2].quantity = 2
  /\ out.resp.data.totalAmount # out.req.totalAmount
  /\ orders[out.id].totalAmount = out.resp.data.totalAmount

\* Some id of the request's item list names no product.
SomeUnknownProduct(items) == \E i \in 1..Len(items) : items[i].productId \notin Products

\* C8: with one handler at a time, createOrder with an item list that names
\* a product id that does not exist answers 404 "One or more products not
\* found" and leaves orders, order items and every stock as they were.
C8_UnknownProductRejected ==
  (out.kind = "createOrder" /\ SomeUnknownProduct(out.req.items))
  => /\ out.resp.code = 404
     /\ out.resp.message = "One or more products not found"
     /\ DbUnchanged

C8_Witness ==
  /\ out.kind = "createOrder"
  /\ Len(out.req.items) = 2
  /\ out.req.items[1].productId \in Products
  /\ out.req.items[1].quantity <= stock[out.req.items[1].productId]
  /\ out.req.items[2].productId = UnknownProduct
  /\ out.resp.code = 404

\* C9: with one handler at a time, createOrder answers 404 exactly when some
\* id of the list names no product, and a list whose ids all name products
\* with enough stock is answered 201 with one order item per list entry.
C9_NotFoundIffUnresolved ==
  out.kind = "createOrder"
  => /\ out.resp.code = 404 <=> SomeUnknownProduct(out.req.items)
     /\ (\A i \in 1..Len(out.req.items) :
           /\ out.req.items[i].productId \in Products
           /\ out.req.items[i].quantity <= pre.stock[out.req.items[i].productId])
        => /\ out.resp.code = 201
           /\ Len(out.resp.data.items) = Len(out.req.items)

\* The first item of the list that asks for more than the recorded stock.
FirstShort(items) ==
  CHOOSE i \in 1..Len(items) :
    /\ items[i].quantity > pre.stock[items[i].productId]
    /\ \A j \in 1..(i - 1) : items[j].quantity <= pre.stock[items[j].productId]

\* C10: with one handler at a time, createOrder with a list whose ids all
\* name products answers 400 naming the product, its stock and the requested
\* quantity and persists nothing when some item asks for more than the stock,
\* and answers 201 when every item asks for at most the stock.
C10_InsufficientStockRejected ==
  (out.kind = "createOrder" /\ ~SomeUnknownProduct(out.req.items))
  => LET items == out.req.items
         short == \E i \in 1..Len(items) : items[i].quantity > pre.stock[items[i].productId]
     IN IF short
          THEN /\ out.resp.code = 400
               /\ out.resp.message = "Insufficient stock"
               /\ out.resp.product = items[FirstShort(items)].productId
               /\ out.resp.available = pre.stock[out.resp.product]
               /\ out.resp.requested = items[FirstShort(items)].quantity
               /\ DbUnchanged
          ELSE out.resp.code = 201

\* C11: every order has at least one order item, and the order createOrder
\* has just answered with 201 is PENDING, carries no payment-intent
\* identifier and holds exactly the items of the request, one order item per
\* entry with the entry's product and quantity.
C11_CreatedWholeAndPending ==
  /\ \A o \in 1..Len(orders) : Len(orders[o].items) >= 1
  /\ (out.kind = "createOrder" /\ out.resp.code = 201)
     => LET order == orders[out.id]
        IN /\ order.status = "PENDING"
           /\ order.stripePaymentIntentId = 0
           /\ Len(order.items) = Len(out.req.items)
           /\ \A i \in 1..Len(out.req.items) :
                /\ order.items[i].productId = out.req.items[i].productId
                /\ order.items[i].quantity = out.req.items[i].quantity

C11_Witness ==
  /\ out.kind = "createOrder" /\ out.resp.code = 201
  /\ Len(out.req.items) = 2
  /\ Len(orders[out.id].items) = 2
  /\ orders[out.id].status = "PENDING"

\* The item list names existing products, each of them once.
DistinctKnown(items) ==
  /\ \A i \in 1..Len(items) : items[i].productId \in Products
  /\ \A i, j \in 1..Len(items) : items[i].productId = items[j].productId => i = j

\* C12: with one handler at a time, createOrder leaves every product's stock
\* as the request found it whether it answers 201 or an error, and a list of
\* distinct existing products is accepted exactly when every quantity is at
\* most the recorded stock, whatever orders are already PENDING for it.
C12_StockOnlyChecked ==
  out.kind = "createOrder"
  => /\ stock = pre.stock
     /\ DistinctKnown(out.req.items)
        => (out.resp.code = 201 <=>
              \A i \in 1..Len(out.req.items) :
                out.req.items[i].quantity <= stock[out.req.items[i].productId])

\* Two PENDING orders, each asking for all the stock there is of one product.
C12_Witness ==
  /\ out.kind = "createOrder" /\ out.resp.code = 201
  /\ Len(orders) = 2
  /\ \A o \in 1..2 : orders[o].status = "PENDING"
  /\ \E p \in Products : \A o \in 1..2 :
       \E i \in 1..Len(orders[o].items) :
         /\ orders[o].items[i].productId = p
         /\ orders[o].items[i].quantity = stock[p]

\* C13: with one handler at a time, createPaymentIntent answers 404 for an
\* order id that names no order and 400 for an order that is PAID, FAILED or
\* CANCELLED; in both cases the processor is asked for no intent and every
\* order is as the request found it.
C13_IssuanceRefused ==
  out.kind = "createPaymentIntent"
  => LET id == out.req.id
         untouched == orders = pre.orders /\ nextIntent = pre.nextIntent
     IN /\ id \notin 1..Len(pre.orders)
           => out.resp.code = 404 /\ untouched
        /\ (id \in 1..Len(pre.orders)
            /\ pre.orders[id].status \in {"PAID", "FAILED", "CANCELLED"})
           => out.resp.code = 400 /\ untouched

\* An order that got an intent and then failed is refused a second intent.
C13_Witness ==
  /\ out.kind = "createPaymentIntent"
  /\ out.req.id \in 1..Len(pre.orders)
  /\ pre.orders[out.req.id].status = "FAILED"
  /\ orders[out.req.id].stripePaymentIntentId = 1
  /\ nextIntent = 2
  /\ out.resp.code = 400

\* C14: the step of createPaymentIntent that writes the order stores on it
\* the identifier of the intent the processor returned to this request,
\* whatever identifier the order held, leaves the order's status as it was,
\* and answers 200 with that intent's client secret.
C14_IntentStored ==
  [][\A w \in Procs :
       (/\ procs[w].kind = "createPaymentIntent" /\ procs[w].pc = "store"
        /\ procs'[w].kind = "idle")
       => LET id == procs[w].req.id
          IN /\ orders'[id].stripePaymentIntentId = procs[w].intent.id
             /\ orders'[id].status = orders[id].status
             /\ procs[w].order.status = "PENDING"
             /\ out'.resp.code = 200
             /\ out'.resp.data.clientSecret = procs[w].intent.client_secret
             /\ out'.resp.data.order.stripePaymentIntentId = procs[w].intent.id]_vars

\* Two issuances for one order overlap; the one that got the older intent
\* writes last, and the order holds the older identifier.
C14_Witness ==
  /\ out.kind = "createPaymentIntent" /\ out.resp.code = 200
  /\ out.intent.id = 1
  /\ nextIntent = 3
  /\ orders[out.req.id].stripePaymentIntentId = 1
  /\ orders[out.req.id].status = "PENDING"

\* C15: the intent requested for an order asks for the order's total in
\* cents, rounded to the nearest cent (the total is counted in tenths of a
\* cent), and its metadata names the order and the order's customer email.
C15_AmountInMinorUnits ==
  (out.kind = "createPaymentIntent" /\ out.resp.code = 200)
  => LET order == orders[out.req.id]
         intent == out.intent
     IN /\ 10 * intent.amount - 5 <= order.totalAmount
        /\ order.totalAmount <= 10 * intent.amount + 5
        /\ intent.metadata.orderId = out.req.id
        /\ intent.metadata.customerEmail = order.customerEmail

\* A total of more than half a cent and less than a cent is asked as 1 cent.
C15_Witness ==
  /\ out.kind = "createPaymentIntent" /\ out.resp.code = 200
  /\ orders[out.req.id].totalAmount \in 6..9
  /\ out.intent.amount = 1
  /\ orders[out.req.id].customerEmail = "other@example.com"

\* The step just taken answered a webhook whose signature verified and whose
\* event is payment_intent.payment_failed.
VerifiedFailed ==
  /\ out.kind = "webhook"
  /\ out.req.sig = "good" /\ webhookSecretSet
  /\ out.req.type = "payment_intent.payment_failed"

\* C16: with one handler at a time, a verified payment_intent.payment_failed
\* event naming an existing order leaves that order FAILED whatever its
\* status was (FAILED included), changes nothing else of any order, no stock
\* and no email count, and is acknowledged with success.
C16_FailureMarksFailed ==
  (VerifiedFailed /\ out.req.orderId \in 1..Len(pre.orders))
  => /\ orders[out.req.orderId].status = "FAILED"
     /\ orders = [pre.orders EXCEPT ![out.req.orderId].status = "FAILED"]
     /\ stock = pre.stock
     /\ emails = pre.emails
     /\ out.resp.code = 200 /\ out.resp.success

\* The failure event reaches an order that was PAID.
C16_Witness ==
  /\ VerifiedFailed
  /\ out.req.orderId \in 1..Len(pre.orders)
  /\ pre.orders[out.req.orderId].status = "PAID"
  /\ orders[out.req.orderId].status = "FAILED"
  /\ out.resp.code = 200

\* C17: with one handler at a time, a request to createOrder, to
\* createPaymentIntent or to the webhook leaves the status of every order
\* that was PAID, FAILED or CANCELLED as it was.
C17_TerminalStatusesKept ==
  out.kind \in {"createOrder", "createPaymentIntent", "webhook"}
  => \A o \in 1..Len(pre.orders) :
       pre.orders[o].status \in {"PAID", "FAILED", "CANCELLED"}
       => orders[o].status = pre.orders[o].status

\* C18: with one handler at a time, an admin override answered 200 lowers
\* stock and sends the confirmation email only when the target is PAID and
\* the order was not PAID: then each product's stock is lowered by the
\* ordered quantity (when no product update failed) and the email count
\* goes up by one exactly when the email went out; for every other pair of
\* previous and target status, PAID to PAID included, stock and email counts
\* are as the request found them.
C18_OverrideSettlesOnlyIntoPaid ==
  (out.kind = "updateOrderStatus" /\ out.resp.code = 200)
  => LET o == out.req.id
     IN IF out.req.status = "PAID" /\ pre.orders[o].status # "PAID"
          THEN /\ \A p \in Products :
                    /\ stock[p] >= pre.stock[p] - QtyOf(orders[o].items, p)
                    /\ out.errs = 0 => stock[p] = pre.stock[p] - QtyOf(orders[o].items, p)
               /\ emails = [pre.emails EXCEPT ![o] = IF out.emailSent THEN @ + 1 ELSE @]
          ELSE /\ stock = pre.stock
               /\ emails = pre.emails

C18_Witness ==
  /\ out.kind = "updateOrderStatus" /\ out.resp.code = 200
  /\ out.req.status = "PAID"
  /\ pre.orders[out.req.id].status = "PENDING"
  /\ out.errs = 0 /\ out.emailSent
  /\ Len(orders[out.req.id].items) = 2
  /\ emails[out.req.id] = 1
  /\ \A p \in Products : stock[p] < pre.stock[p]

\* C19: with one handler at a time and the admin key configured, an
\* override with a target outside the enumeration is answered 400 and one
\* for an unknown order id 404, both changing nothing; any target of the
\* enumeration on an existing order is answered 200 and leaves the order in
\* that status whatever its status was, and an override to PAID of an order
\* that was FAILED lowers the stock by the ordered quantities.
C19_AnyEnumeratedTargetAccepted ==
  (out.kind = "updateOrderStatus" /\ adminKeySet)
  => LET o == out.req.id
     IN IF out.req.status \notin Statuses
          THEN out.resp.code = 400 /\ DbUnchanged
        ELSE IF o \notin 1..Len(pre.orders)
          THEN out.resp.code = 404 /\ DbUnchanged
        ELSE /\ out.resp.code = 200
             /\ orders[o].status = out.req.status
             /\ (out.req.status = "PAID" /\ pre.orders[o].status = "FAILED" /\ out.errs = 0)
                => \A p \in Products : stock[p] = pre.stock[p] - QtyOf(orders[o].items, p)

C19_Witness ==
  /\ out.kind = "updateOrderStatus" /\ adminKeySet
  /\ out.req.id \in 1..Len(pre.orders)
  /\ pre.orders[out.req.id].status = "FAILED"
  /\ out.req.status = "PAID"
  /\ out.resp.code = 200
  /\ orders[out.req.id].status = "PAID"
  /\ \E p \in Products : stock[p] < pre.stock[p]

\* C20: with one handler at a time, an override request whose key header is
\* absent or is not the configured admin key is not answered 200 and
\* changes no order and no stock.
C20_AdminKeyRequired ==
  (out.kind = "updateOrderStatus" /\ out.req.apiKey # "admin")
  => /\ out.resp.code # 200
     /\ orders = pre.orders
     /\ stock = pre.stock

\* C21: with one handler at a time, when the confirmation email of a
\* settlement is not delivered, the step that tried to send it answers 200
\* and changes no order and no stock: the order is PAID and what the loop
\* has lowered stays lowered (at least every item's quantity, in the webhook).
C21_EmailFailureKeepsSettlement ==
  [][\A w \in Procs :
       (/\ procs[w].pc = "email"
        /\ procs'[w].kind = "idle"
        /\ emails' = emails)
       => LET o == procs[w].order.id
          IN /\ out'.resp.code = 200 /\ out'.resp.success
             /\ orders' = orders /\ stock' = stock /\ lowered' = lowered
             /\ orders[o].status = "PAID"
             /\ procs[w].kind = "webhook"
                => \A i \in 1..Len(orders[o].items) :
                     lowered[o][i] >= orders[o].items[i].quantity]_vars

\* The webhook has settled a two-item order and its email was not delivered.
C21_Witness ==
  /\ VerifiedSucceeded
  /\ out.req.orderId \in 1..Len(pre.orders)
  /\ pre.orders[out.req.orderId].status = "PENDING"
  /\ ~out.emailSent /\ emails = pre.emails
  /\ out.resp.code = 200
  /\ orders[out.req.orderId].status = "PAID"
  /\ Len(orders[out.req.orderId].items) = 2
  /\ \A p \in Products : stock[p] < pre.stock[p]

\* C22: no step of any operation (order creation, payment-intent issuance,
\* webhook events, admin overrides, product creation, stock updates,
\* category creation) removes an order or changes an existing order's
\* totalAmount, customer email or items (product, recorded price, quantity).
C22_OrderSnapshotImmutable ==
  [][\A o \in 1..Len(orders) :
       /\ o <= Len(orders')
       /\ orders'[o].totalAmount = orders[o].totalAmount
       /\ orders'[o].customerEmail = orders[o].customerEmail
       /\ orders'[o].items = orders[o].items]_vars

\* A stock update has changed the stock of a product that a settled order
\* names; the order still carries the total computed at creation.
C22_Witness ==
  /\ out.kind = "updateProductStock" /\ out.resp.code = 200
  /\ stock # pre.stock
  /\ Len(orders) = 1
  /\ orders[1].status = "PAID"
  /\ orders[1].items[1].productId = out.req.id
  /\ orders[1].totalAmount = orders[1].items[1].price * orders[1].items[1].quantity

\* The slug the description gives for a name: lower-case every character;
\* a whitespace character becomes a hyphen when it is the first of its run
\* and the run has other characters on both sides, and is dropped
\* otherwise; of the rest only a-z, 0-9 and hyphen are kept.
KeptAsHyphen(name, i) ==
  /\ IsSpace(name[i])
  /\ i > 1 /\ ~IsSpace(name[i - 1])
  /\ \E j \in (i + 1)..Len(name) : ~IsSpace(name[j])

ExpectedSlug(name) ==
  LET kept == SelectSeq([i \in 1..Len(name) |-> i],
                        LAMBDA i : \/ KeptAsHyphen(name, i)
                                   \/ IsSlugChar(toLowerChar(name[i])))
  IN [k \in 1..Len(kept) |->
        IF IsSpace(name[kept[k]]) THEN "-" ELSE toLowerChar(name[kept[k]])]

\* C23: a category created without a slug is stored with the slug the
\* description gives for its name ("Great Deals!!" gives "great-deals");
\* when that slug is empty the request is answered 400 and no category is
\* stored; the only other refusal is a slug that is already taken.
C23_SlugDerivedFromName ==
  (/\ out.kind = "createCategory" /\ adminKeySet
   /\ ~out.req.slug.given /\ Len(out.req.name) >= 1)
  => LET expected == ExpectedSlug(out.req.name)
     IN /\ expected = <<>> => out.resp.code = 400 /\ categories = pre.categories
        /\ expected # <<>> =>
             \/ /\ out.resp.code = 201
                /\ categories = Append(pre.categories,
                                        [name |-> out.req.name, slug |-> expected])
                /\ out.resp.data.slug = expected
             \/ /\ out.resp.code = 400
                /\ categories = pre.categories
                /\ \E c \in 1..Len(categories) : categories[c].slug = expected
        /\ (out.req.name = GreatDeals /\ out.resp.code = 201)
           => out.resp.data.slug = <<"g", "r", "e", "a", "t", "-", "d", "e", "a", "l", "s">>

C23_Witness ==
  /\ out.kind = "createCategory" /\ adminKeySet
  /\ ~out.req.slug.given
  /\ out.req.name = GreatDeals
  /\ out.resp.code = 201
  /\ categories[1].slug = <<"g", "r", "e", "a", "t", "-", "d", "e", "a", "l", "s">>

\* C26: with one handler at a time, a stock update whose body carries a
\* negative stock is refused and leaves every stock as it was, a stock
\* update that changes a product's stock leaves it >= 0, and every product
\* created has a stock >= 0.
C26_CatalogStockNonNegative ==
  /\ \A c \in 1..Len(created) : created[c].stock >= 0
  /\ out.kind = "updateProductStock"
     => /\ (out.req.stock.kind = "int" /\ out.req.stock.value < 0)
           => out.resp.code # 200 /\ stock = pre.stock
        /\ (out.resp.code = 200 /\ stock # pre.stock)
           => stock[out.req.id] >= 0

\* By how much the request just answered has lowered the stock for item i
\* of order o.
Applied(o, i) == lowered[o][i] - pre.lowered[o][i]

\* C24: with one handler at a time, a verified payment_intent.succeeded
\* event for a PENDING order whose decrements were not all applied is
\* answered 500; the order is PAID, the items before the failed update are
\* lowered by their quantity, the failed one and those after it not at all,
\* and no email is sent.  The event is answered 500 in no other case.
C24_PartialDecrementStays ==
  (/\ VerifiedSucceeded
   /\ out.req.orderId \in 1..Len(pre.orders)
   /\ pre.orders[out.req.orderId].status = "PENDING")
  => LET o == out.req.orderId
         items == orders[o].items
         partial == \E i \in 1..Len(items) : Applied(o, i) < items[i].quantity
     IN /\ partial <=> out.resp.code = 500
        /\ partial
           => /\ orders[o].status = "PAID"
              /\ emails = pre.emails
              /\ \E k \in 1..Len(items) :
                   /\ \A j \in 1..(k - 1) : Applied(o, j) = items[j].quantity
                   /\ \A j \in k..Len(items) : Applied(o, j) = 0
                   /\ \A p \in Products :
                        stock[p] = pre.stock[p] - QtyOf(SubSeq(items, 1, k - 1), p)

\* The second of two product updates failed: the first product is lowered,
\* the second is not, the order is PAID and the answer is 500.
C24_Witness ==
  /\ VerifiedSucceeded
  /\ out.req.orderId \in 1..Len(pre.orders)
  /\ pre.orders[out.req.orderId].status = "PENDING"
  /\ Len(orders[out.req.orderId].items) = 2
  /\ Applied(out.req.orderId, 1) = orders[out.req.orderId].items[1].quantity
  /\ Applied(out.req.orderId, 2) = 0
  /\ orders[out.req.orderId].status = "PAID"
  /\ out.resp.code = 500

\* C25: with one handler at a time, an admin override to PAID of an order
\* that was not PAID, in which some product update failed, is answered 200
\* and leaves the order PAID; exactly the failed items are not lowered and
\* every other item is lowered by its quantity; the email is still sent
\* (the email count goes up when the send succeeds).
C25_FailedItemSkippedOnly ==
  (/\ out.kind = "updateOrderStatus"
   /\ out.req.id \in 1..Len(pre.orders)
   /\ out.req.status = "PAID"
   /\ pre.orders[out.req.id].status # "PAID"
   /\ adminKeySet
   /\ out.errs > 0)
  => LET o == out.req.id
         items == orders[o].items
     IN /\ out.resp.code = 200 /\ out.resp.success
        /\ orders[o].status = "PAID"
        /\ \A i \in 1..Len(items) : Applied(o, i) \in {0, items[i].quantity}
        /\ Cardinality({i \in 1..Len(items) : Applied(o, i) = 0}) = out.errs
        /\ emails = [pre.emails EXCEPT ![o] = IF out.emailSent THEN @ + 1 ELSE @]

\* The first product update failed, the second was applied and the email
\* went out.
C25_Witness ==
  /\ out.kind = "updateOrderStatus" /\ out.resp.code = 200
  /\ out.req.status = "PAID"
  /\ out.errs = 1 /\ out.emailSent
  /\ Len(orders[out.req.id].items) = 2
  /\ Applied(out.req.id, 1) = 0
  /\ Applied(out.req.id, 2) = orders[out.req.id].items[2].quantity
  /\ orders[out.req.id].status = "PAID"

\* The step just taken answered a settlement request: a verified succeeded
\* event for order o or an admin override of order o to PAID.
SettlementOf(o) ==
  \/ VerifiedSucceeded /\ out.req.orderId = o
  \/ /\ out.kind = "updateOrderStatus" /\ adminKeySet
     /\ out.req.id = o /\ out.req.status = "PAID"

\* C27: with one handler at a time, a settlement request (succeeded event
\* or override to PAID) that finds the order PAID changes no stock and
\* sends no email; when the order was created, settled once and then met
\* by this second settlement, with no product update failing, every item's
\* product stock is lowered by the item's quantity exactly once.
C27_LaterSettlementIsNoop ==
  \A o \in 1..Len(pre.orders) :
    (SettlementOf(o) /\ pre.orders[o].status = "PAID")
    => /\ stock = pre.stock
       /\ emails = pre.emails
       /\ lowered = pre.lowered
       /\ out.resp.code = 200
       /\ (nreq = 3 /\ faults = 0)
          => \A i \in 1..Len(orders[o].items) :
               lowered[o][i] = orders[o].items[i].quantity

\* An override to PAID arrives third, after the order was created and
\* settled.
C27_Witness ==
  /\ out.kind = "updateOrderStatus" /\ adminKeySet
  /\ out.req.id \in 1..Len(pre.orders)
  /\ out.req.status = "PAID"
  /\ pre.orders[out.req.id].status = "PAID"
  /\ nreq = 3 /\ faults = 0
  /\ emails[out.req.id] = 1
  /\ Len(orders[out.req.id].items) = 2
  /\ out.resp.code = 200

\* C28: whatever the other handlers have done to the order since
\* createPaymentIntent read it, the step of createPaymentIntent that writes
\* changes the order's stripePaymentIntentId and nothing else of any order.
C28_IssuanceWritesIntentOnly ==
  [][\A w \in Procs :
       (/\ procs[w].kind = "createPaymentIntent" /\ procs[w].pc = "store"
        /\ procs'[w].kind = "idle")
       => orders' = [orders EXCEPT ![procs[w].req.id].stripePaymentIntentId =
                                      procs[w].intent.id]]_vars

\* The order was read as PENDING, settled by another handler, and then
\* written by createPaymentIntent: it is PAID and holds the intent.
C28_Witness ==
  /\ out.kind = "createPaymentIntent" /\ out.resp.code = 200
  /\ orders[out.req.id].status = "PAID"
  /\ orders[out.req.id].stripePaymentIntentId = out.intent.id
  /\ \E i \in 1..Len(orders[out.req.id].items) : lowered[out.req.id][i] > 0

\* C29: with one handler at a time, a verified event whose orderId names no
\* order changes nothing; it is answered 500 when it is a
\* payment_intent.payment_failed event and 200 when it is a
\* payment_intent.succeeded event.
C29_FailedEventForUnknownOrder ==
  (/\ out.kind = "webhook"
   /\ out.req.orderId # NoOrderId
   /\ out.req.orderId \notin 1..Len(pre.orders))
  => /\ VerifiedFailed => out.resp.code = 500 /\ ~out.resp.success /\ DbUnchanged
     /\ VerifiedSucceeded => out.resp.code = 200 /\ out.resp.success /\ DbUnchanged

C29_Witness ==
  /\ VerifiedFailed
  /\ out.req.orderId = UnknownOrder
  /\ Len(orders) = 1
  /\ out.resp.code = 500
  /\ DbUnchanged

\* C30: with one handler at a time, the settlements of an order have
\* lowered each item's product stock by at most the item's quantity.
C30_LoweredAtMostOnce ==
  \A o \in 1..Len(orders) : \A i \in 1..Len(orders[o].items) :
    lowered[o][i] <= orders[o].items[i].quantity

====
